---- MODULE Spec2Model ----
(***************************************************************************)
(* Model of alex (src/main.cxx): main reads each command-line file with    *)
(* load_ply or load_obj, collects one Mesh per file and hands the vector   *)
(* to export_to_alembic, which writes one sample per Mesh into out.abc.    *)
(*                                                                         *)
(* Integer widths are scaled: size_t has SizeBits bits and uint32_t /      *)
(* int32_t have IdxBits bits, so INT32_MAX is 2^(IdxBits-1)-1 and products *)
(* of size_t wrap modulo 2^SizeBits.                                       *)
(*                                                                         *)
(* Input is read once, front to back, so the content of a file (its name,  *)
(* each text line, the payload length, each payload byte group) is chosen  *)
(* at the step that reads it.                                              *)
(***************************************************************************)
EXTENDS Integers, Sequences, FiniteSets, TLC

\* ---- bounds of the model ------------------------------------------------
MaxFiles == 2
MaxInput == 2
MaxInt == 1
MaxFaceCount == 1
MaxIndexCount == 1
MaxTail == 5
IdxBits == 3
SizeBits == 6

\* ---- program constants --------------------------------------------------
vertex_size == 12
EXIT_FAILURE == 1
IndexBytes == 4
CountBytes == 1
Quad == 4
Tri == 3

RECURSIVE Pow2(_)
Pow2(n) == IF n = 0 THEN 1 ELSE 2 * Pow2(n - 1)

SizeMod == Pow2(SizeBits)
SIZE_MAX == SizeMod - 1
UINT32_MAX == Pow2(IdxBits) - 1
INT32_MAX == Pow2(IdxBits - 1) - 1

\* the status of a process ended by std::terminate on an uncaught exception
\* (abort: 128 + signal 6); no status is -1 while the process runs
SIGABRT == 134

VARIABLES
  pc,           \* position of the program
  argc,         \* number of file arguments (argc - 1 of main)
  i,            \* main's loop variable: the file being read, 1-based
  out_abc,      \* the file out.abc: created?, archive header written?
  samples,      \* the samples written to out.abc, in order
  meshes,       \* main's std::vector<Mesh>
  exit_status,  \* the exit status of the process, -1 while it runs
  err,          \* the message of die(), "" when die was not called
  m,            \* the Mesh under construction in load_ply / load_obj
  stream,       \* state of the std::ifstream opened on the file
  line,         \* the line std::getline last produced
  line_number,  \* load_obj's count of the lines read from the file
  file_str,     \* load_ply's std::string s: what the file read holds
  parser_expects,
  ph,           \* PlyHeader
  ply,          \* load_ply locals: sizes, read cursor, loop counters
  input_read,   \* history: text lines, count bytes and indexes read so far
  returned,     \* history: the Mesh each parser call returned, by file
  mismatch,     \* history: a header line of this file did not match
  unreadable,   \* history: this file could not be opened or read
  fatal_seen,   \* history: an earlier file had a mismatch or was unreadable
  unknown_ext   \* history: a file name had no recognised extension

vars == << pc, argc, i, out_abc, samples, meshes, exit_status, err,
           m, stream, line, line_number, file_str, parser_expects, ph, ply,
           input_read, returned, mismatch, unreadable, fatal_seen, unknown_ext >>

\* ---- Mesh ----------------------------------------------------------------
EmptyMesh == [vertexes |-> <<>>, indexes |-> <<>>, faces |-> <<>>]

RECURSIVE SumSeq(_)
SumSeq(s) == IF s = <<>> THEN 0 ELSE Head(s) + SumSeq(Tail(s))

\* ---- text tokens and sscanf ---------------------------------------------
\* A token is a number, a number directly followed by other characters
\* ("1/2", "1x"), or text that starts no number.
Num(n) == [t |-> "num", v |-> n]
NumJunk(n) == [t |-> "numjunk", v |-> n]
Junk == [t |-> "junk", v |-> 0]

IntVals == 0..MaxInt
FloatVals == {0}
MaxTokens == Quad + 1

\* n copies of the token t, and the same with position p replaced by u
Uniform(n, t) == [k \in 1..n |-> t]
OneOff(n, t, p, u) == [k \in 1..n |-> IF k = p THEN u ELSE t]

TokenSeqs(nums, others) ==
  {Uniform(n, t) : n \in 0..MaxTokens, t \in nums}
  \cup {OneOff(n, t, p, u) : n \in 1..MaxTokens, t \in nums, p \in 1..MaxTokens,
                             u \in nums \cup others}

IndexNums == {Num(n) : n \in IntVals}
FloatNums == {Num(f) : f \in FloatVals}

\* the lines a text file is made of: face lines and vertex lines of 0 to
\* MaxTokens tokens, a line with another prefix, and the empty line
ObjLines ==
  {[prefix |-> "f ", toks |-> t] : t \in TokenSeqs(IndexNums, {NumJunk(1), Junk})}
  \cup {[prefix |-> "v ", toks |-> t] : t \in TokenSeqs(FloatNums, {Junk})}
  \cup {[prefix |-> "#", toks |-> <<>>], [prefix |-> "", toks |-> <<>>]}

NoLine == [prefix |-> "", toks |-> <<>>]

\* the values sscanf assigns for n numeric conversions separated by blanks:
\* it stops at the first token that is not a number, and after a number
\* that is followed by other characters
RECURSIVE sscanf(_, _)
sscanf(toks, n) ==
  IF n = 0 \/ toks = <<>> THEN <<>>
  ELSE LET h == Head(toks)
       IN IF h.t = "junk" THEN <<>>
          ELSE IF h.t = "numjunk" THEN <<h.v>>
          ELSE <<h.v>> \o sscanf(Tail(toks), n - 1)

idx_ok_unbounded(idx, vertex_count) == idx > 0

idx_ok(idx, vertex_count) == idx > 0 /\ idx <= vertex_count

starts_with(l, p) == l.prefix = p

push_face_short(mesh, n, idxs) ==
  [mesh EXCEPT !.faces = Append(@, n),
               !.indexes = @ \o [k \in 1..(n - 1) |-> idxs[k] - 1]]

\* the pushes of an accepted face: the count, then each index minus one
push_face(mesh, n, idxs) ==
  [mesh EXCEPT !.faces = Append(@, n),
               !.indexes = @ \o [k \in 1..n |-> idxs[k] - 1]]

\* one face line tried with n conversions; the mesh is unchanged on a bad index
obj_face(mesh, n, idxs) ==
  LET vcount == Len(mesh.vertexes)
  IN IF \A k \in 1..n : idx_ok(idxs[k], vcount)
     THEN push_face(mesh, n, idxs)
     ELSE mesh

obj_line_retry(mesh, l) ==
  IF l.prefix = "" /\ l.toks = <<>> THEN mesh
  ELSE IF starts_with(l, "v ") THEN
    LET xyz == sscanf(l.toks, 3)
    IN IF Len(xyz) = 3
       THEN [mesh EXCEPT !.vertexes = Append(@, xyz)]
       ELSE mesh
  ELSE IF starts_with(l, "f ") THEN
    IF /\ Len(sscanf(l.toks, Quad)) = Quad
       /\ obj_face(mesh, Quad, sscanf(l.toks, Quad)) # mesh
    THEN obj_face(mesh, Quad, sscanf(l.toks, Quad))
    ELSE IF Len(sscanf(l.toks, Tri)) = Tri THEN obj_face(mesh, Tri, sscanf(l.toks, Tri))
    ELSE mesh
  ELSE mesh

\* the body of load_obj's loop for one line
obj_line(mesh, l) ==
  IF l.prefix = "" /\ l.toks = <<>> THEN mesh
  ELSE IF starts_with(l, "v ") THEN
    LET xyz == sscanf(l.toks, 3)
    IN IF Len(xyz) = 3
       THEN [mesh EXCEPT !.vertexes = Append(@, xyz)]
       ELSE mesh
  ELSE IF starts_with(l, "f ") THEN
    IF Len(sscanf(l.toks, Quad)) = Quad THEN obj_face(mesh, Quad, sscanf(l.toks, Quad))
    ELSE IF Len(sscanf(l.toks, Tri)) = Tri THEN obj_face(mesh, Tri, sscanf(l.toks, Tri))
    ELSE mesh
  ELSE mesh

\* ---- PLY header -----------------------------------------------------------
States ==
  << "EXPECT_MAGIC", "EXPECT_FORMAT", "EXPECT_VERTEX_ELEMENT", "EXPECT_VERTEX_X",
     "EXPECT_VERTEX_Y", "EXPECT_VERTEX_Z", "EXPECT_FACE_ELEMENT",
     "EXPECT_FACE_VERTEX_INDEX", "EXPECT_END_HEADER", "EXPECT_DATA" >>

HLine(text, n) == [text |-> text, n |-> n]

\* the counts a header declares: small ones, the first above INT32_MAX, the
\* largest whose vertex block fits size_t and the first whose block does not
VertexCounts ==
  {0, 1, INT32_MAX + 1, SIZE_MAX \div vertex_size, SIZE_MAX \div vertex_size + 1}
FaceCounts == 0..MaxFaceCount

\* header lines before the last one; none of them ends in "end_header"
HeaderLines ==
  {HLine(t, 0) : t \in {"ply", "format binary_little_endian 1.0", "property float x",
                        "property float y", "property float z",
                        "property list uchar uint vertex_index", "comment"}}
  \cup {HLine("element vertex", n) : n \in VertexCounts}
  \cup {HLine("element face", n) : n \in FaceCounts}

\* the line that ends the header: find_end_of stops at the first
\* "end_header\n", which may follow other characters on its line
LastHeaderLines == {HLine("end_header", 0), HLine("xend_header", 0)}

NoPlyHeader == [vertex_count |-> 0, face_count |-> 0]

Advance(to, h) == [expects |-> to, ph |-> h, diag |-> ""]
Stay(at, h, msg) == [expects |-> at, ph |-> h, diag |-> msg]

\* one pass of the switch in parse_ply_header
header_line(expects, h, l) ==
  CASE expects = "EXPECT_MAGIC" ->
         IF l.text = "ply" THEN Advance("EXPECT_FORMAT", h)
         ELSE Stay(expects, h, "not a PLY file")
    [] expects = "EXPECT_FORMAT" ->
         IF l.text = "format binary_little_endian 1.0"
         THEN Advance("EXPECT_VERTEX_ELEMENT", h)
         ELSE Stay(expects, h, "unsupported format")
    [] expects = "EXPECT_VERTEX_ELEMENT" ->
         IF l.text = "element vertex"
         THEN Advance("EXPECT_VERTEX_X", [h EXCEPT !.vertex_count = l.n])
         ELSE Stay(expects, h, "unsupported vertex element")
    [] expects = "EXPECT_VERTEX_X" ->
         IF l.text = "property float x" THEN Advance("EXPECT_VERTEX_Y", h)
         ELSE Stay(expects, h, "unsupported vertex property")
    [] expects = "EXPECT_VERTEX_Y" ->
         IF l.text = "property float y" THEN Advance("EXPECT_VERTEX_Z", h)
         ELSE Stay(expects, h, "unsupported vertex property")
    [] expects = "EXPECT_VERTEX_Z" ->
         IF l.text = "property float z" THEN Advance("EXPECT_FACE_ELEMENT", h)
         ELSE Stay(expects, h, "unsupported vertex property")
    [] expects = "EXPECT_FACE_ELEMENT" ->
         IF l.text = "element face"
         THEN Advance("EXPECT_FACE_VERTEX_INDEX", [h EXCEPT !.face_count = l.n])
         ELSE Stay(expects, h, "unsupported face element")
    [] expects = "EXPECT_FACE_VERTEX_INDEX" ->
         IF l.text = "property list uchar uint vertex_index"
         THEN Advance("EXPECT_END_HEADER", h)
         ELSE Stay(expects, h, "unsupported vertex_index property")
    [] expects = "EXPECT_END_HEADER" ->
         IF l.text = "end_header" THEN Advance("EXPECT_DATA", h)
         ELSE Stay(expects, h, "unsupported field")
    [] OTHER -> Stay(expects, h, "missing newline after end_header")

\* ---- PLY payload ----------------------------------------------------------
is_mul_safe_always(x, y) == TRUE

is_mul_safe_nonzero(x, y) == y # 0 /\ ((x * y) % SizeMod) \div y = x

is_mul_safe(x, y) == y = 0 \/ ((x * y) % SizeMod) \div y = x

ply_idx_ok_cap(index, vertex_count) == index < INT32_MAX

ply_idx_ok(index, vertex_count) == index < INT32_MAX /\ index < vertex_count

\* the payload lengths tried for a vertex block of vds bytes: too short, exact,
\* and up to MaxTail bytes more, within what a size_t file length can be
DataSizes(vds) ==
  {n \in {0, vds - 1} \cup (vds..(vds + MaxTail)) : n >= 0 /\ n <= SIZE_MAX}

\* values of an index read from the payload
IndexReads == {0, 1, INT32_MAX - 1, INT32_MAX, INT32_MAX + 1, UINT32_MAX}

\* values of a count byte read from the payload
CountReads == 0..MaxIndexCount

PlyVertex == <<0, 0, 0>>

NoPly == [vertex_data_size |-> 0, actual_data_size |-> 0, rpos |-> 0,
          i |-> 0, index_count |-> 0, ii |-> 0, index |-> 0]

bytes_left_of_file(p) == p.actual_data_size

bytes_left_and_more(p) == p.actual_data_size - p.rpos + IndexBytes

\* data_end - rpos
bytes_left(p) == p.actual_data_size - p.rpos

\* ---- process exit ---------------------------------------------------------
Exited == pc = "exited"

\* die(): the message goes to stderr and std::exit(EXIT_FAILURE) ends the run
die(msg) ==
  /\ err' = msg
  /\ exit_status' = EXIT_FAILURE
  /\ pc' = "exited"


\* ---- main -----------------------------------------------------------------
\* file names, as the sequences of their '.'-separated parts
FileNames ==
  { <<"a">>, <<"ply">>, <<"a", "txt">>, <<"a", "ply">>, <<"a", "obj">>,
    <<"a", "ply", "obj">>, <<"a", "obj", "ply">> }

\* strrchr(filename, '.'): the text after the last '.', or NULL without one
strrchr(name) == IF Len(name) < 2 THEN "NULL" ELSE name[Len(name)]

push_front(v, x) == <<x>> \o v

push_back(v, x) == Append(v, x)

Init ==
  /\ pc = "main"
  /\ argc \in 0..MaxFiles
  /\ i = 1
  /\ out_abc = [created |-> FALSE, archive |-> FALSE]
  /\ samples = <<>>
  /\ meshes = <<>>
  /\ exit_status = -1
  /\ err = ""
  /\ m = EmptyMesh
  /\ stream = "closed"
  /\ line = NoLine
  /\ line_number = 0
  /\ file_str = "unread"
  /\ parser_expects = "EXPECT_MAGIC"
  /\ ph = NoPlyHeader
  /\ ply = NoPly
  /\ input_read = 0
  /\ returned = <<>>
  /\ mismatch = FALSE
  /\ unreadable = FALSE
  /\ fatal_seen = FALSE
  /\ unknown_ext = FALSE

Main == << argc, i, out_abc, samples, meshes >>
ParserLocals == << m, stream, line, line_number, file_str, parser_expects, ph, ply >>
History == << input_read, returned, mismatch, unreadable, fatal_seen, unknown_ext >>

\* std::ofstream out("out.abc", std::ios::binary)
MainOpenOut ==
  /\ pc = "main"
  /\ out_abc' = [out_abc EXCEPT !.created = TRUE]
  /\ pc' = "main_loop"
  /\ UNCHANGED << argc, i, samples, meshes, exit_status, err, ParserLocals, History >>

\* one test of the for loop and the dispatch on the extension of argv[i]
MainLoop ==
  /\ pc = "main_loop"
  /\ IF i <= argc
     THEN \E filename \in FileNames :
            LET ext == strrchr(filename)
            IN IF ext = "ply"
               THEN pc' = "load_ply" /\ UNCHANGED << exit_status, unknown_ext >>
               ELSE IF ext = "obj"
               THEN pc' = "load_obj" /\ UNCHANGED << exit_status, unknown_ext >>
               ELSE /\ pc' = "exited"
                    /\ exit_status' = 1
                    /\ unknown_ext' = TRUE
     ELSE /\ pc' = "export"
          /\ UNCHANGED << exit_status, unknown_ext >>
  /\ UNCHANGED << Main, err, ParserLocals, input_read, returned, mismatch,
                  unreadable, fatal_seen >>

\* return m; meshes.push_back(...); ++i
ReturnMesh(by) ==
  /\ meshes' = push_back(meshes, m)
  /\ returned' = Append(returned, [file |-> i, by |-> by, mesh |-> m])
  /\ fatal_seen' = (fatal_seen \/ mismatch \/ unreadable)
  /\ mismatch' = FALSE
  /\ unreadable' = FALSE
  /\ i' = i + 1
  /\ m' = EmptyMesh
  /\ stream' = "closed"
  /\ line' = NoLine
  /\ line_number' = 0
  /\ file_str' = "unread"
  /\ parser_expects' = "EXPECT_MAGIC"
  /\ ph' = NoPlyHeader
  /\ ply' = NoPly
  /\ pc' = "main_loop"
  /\ UNCHANGED << argc, out_abc, samples, exit_status, err, input_read, unknown_ext >>

\* ---- load_obj -------------------------------------------------------------
\* Mesh m; std::ifstream in(filename): the open succeeds or fails
ObjOpen ==
  /\ pc = "load_obj"
  /\ \E ok \in BOOLEAN :
       /\ stream' = IF ok THEN "good" ELSE "fail"
       /\ unreadable' = ~ok
  /\ pc' = "obj_loop"
  /\ UNCHANGED << Main, exit_status, err, m, line, line_number, file_str, parser_expects,
                  ph, ply, input_read, returned, mismatch, fatal_seen, unknown_ext >>

ObjLine_fatal ==
  /\ pc = "obj_loop"
  /\ stream = "good"
  /\ input_read < MaxInput
  /\ \E l \in ObjLines :
       /\ line' = l
       /\ m' = obj_line(m, l)
       /\ IF l.prefix \in {"v ", "f "} /\ obj_line(m, l) = m
          THEN die("not a recognized format")
          ELSE UNCHANGED << pc, exit_status, err >>
  /\ line_number' = line_number + 1
  /\ input_read' = input_read + 1
  /\ UNCHANGED << Main, stream, file_str, parser_expects, ph, ply,
                  returned, mismatch, unreadable, fatal_seen, unknown_ext >>

\* std::getline produced a line: one pass of the loop body
ObjLine ==
  /\ pc = "obj_loop"
  /\ stream = "good"
  /\ input_read < MaxInput
  /\ \E l \in ObjLines :
       /\ line' = l
       /\ m' = obj_line(m, l)
  /\ line_number' = line_number + 1
  /\ input_read' = input_read + 1
  /\ UNCHANGED << pc, Main, exit_status, err, stream, file_str, parser_expects, ph, ply,
                  returned, mismatch, unreadable, fatal_seen, unknown_ext >>

\* std::getline failed (end of file, or a stream that never opened)
ObjReturn ==
  /\ pc = "obj_loop"
  /\ ReturnMesh("load_obj")

\* ---- load_ply -------------------------------------------------------------
\* what a file that was read holds: nothing (zero bytes), no "end_header",
\* "end_header" never followed by a newline, or "end_header\n" somewhere
FileContents ==
  {"zero bytes", "no end_header", "end_header without newline", "end_header\n"}

\* read_file: an open that fails makes tellg() -1 and the std::string
\* constructor throw, which ends the process; a read that fails calls die
PlyReadFile ==
  /\ pc = "load_ply"
  /\ \E got \in {"read", "no open", "no read"} :
       IF got = "read"
       THEN /\ \E content \in FileContents : file_str' = content
            /\ pc' = "find_end_of"
            /\ UNCHANGED << exit_status, err, unreadable >>
       ELSE /\ unreadable' = TRUE
            /\ file_str' = file_str
            /\ IF got = "no read"
               THEN die("Could not read file")
               ELSE /\ pc' = "exited"
                    /\ exit_status' = SIGABRT
                    /\ err' = err
  /\ UNCHANGED << Main, m, stream, line, line_number, parser_expects, ph, ply,
                  input_read, returned, mismatch, fatal_seen, unknown_ext >>

\* str.find(needle) != npos
find_end_of(str) == str = "end_header\n"

\* if (!find_end_of(s, "end_header\n", &header_size)) die(...)
PlyFindEnd ==
  /\ pc = "find_end_of"
  /\ IF find_end_of(file_str)
     THEN pc' = "parse_ply_header" /\ UNCHANGED << exit_status, err >>
     ELSE die("Couldn't find 'end_header\\n'")
  /\ UNCHANGED << Main, ParserLocals, History >>

HeaderStep(l, to) ==
  LET r == header_line(parser_expects, ph, l)
  IN /\ parser_expects' = r.expects
     /\ ph' = r.ph
     /\ mismatch' = (mismatch \/ r.diag # "")
     /\ pc' = to
     /\ UNCHANGED << Main, exit_status, err, m, stream, line, line_number, file_str, ply,
                     input_read, returned, unreadable, fatal_seen, unknown_ext >>

\* a header line before the last
PlyHeaderLine ==
  /\ pc = "parse_ply_header"
  /\ \E l \in HeaderLines : HeaderStep(l, "parse_ply_header")

\* the last header line, after which std::getline fails and ph is returned
PlyHeaderLast ==
  /\ pc = "parse_ply_header"
  /\ \E l \in LastHeaderLines : HeaderStep(l, "is_mul_safe")

\* if (!is_mul_safe(ph.vertex_size, ph.vertex_count)) die(...)
PlyGuard ==
  /\ pc = "is_mul_safe"
  /\ IF is_mul_safe(vertex_size, ph.vertex_count)
     THEN pc' = "vertex_data" /\ UNCHANGED << exit_status, err >>
     ELSE die("Vertex count too large")
  /\ UNCHANGED << Main, ParserLocals, History >>

\* the two sizes, the length test, and the copy of the vertex block
PlyVertexData ==
  /\ pc = "vertex_data"
  /\ LET vds == (vertex_size * ph.vertex_count) % SizeMod
     IN \E ads \in DataSizes(vds) :
          /\ ply' = [ply EXCEPT !.vertex_data_size = vds, !.actual_data_size = ads,
                                !.rpos = IF ads < vds THEN 0 ELSE vds, !.i = 0]
          /\ IF ads < vds
             THEN die("Expected bytes of vertex data") /\ m' = m
             ELSE /\ m' = [m EXCEPT !.vertexes = [k \in 1..ph.vertex_count |-> PlyVertex]]
                  /\ pc' = "faces"
                  /\ UNCHANGED << exit_status, err >>
  /\ UNCHANGED << Main, stream, line, line_number, file_str, parser_expects, ph, History >>

\* one test of the face loop and the read of the count byte
PlyFace ==
  /\ pc = "faces"
  /\ IF ply.i < ph.face_count
     THEN IF bytes_left(ply) < CountBytes
          THEN /\ die("Expected faces")
               /\ UNCHANGED << m, ply, input_read >>
          ELSE /\ input_read < MaxInput
               /\ \E c \in CountReads :
                    /\ ply' = [ply EXCEPT !.index_count = c, !.rpos = @ + CountBytes,
                                          !.ii = 0]
                    /\ m' = [m EXCEPT !.faces = Append(@, c)]
               /\ input_read' = input_read + 1
               /\ pc' = "indexes"
               /\ UNCHANGED << exit_status, err >>
     ELSE /\ pc' = "return"
          /\ UNCHANGED << exit_status, err, m, ply, input_read >>
  /\ UNCHANGED << Main, stream, line, line_number, file_str, parser_expects, ph,
                  returned, mismatch, unreadable, fatal_seen, unknown_ext >>

\* one test of the index loop and the read of one index
PlyIndex ==
  /\ pc = "indexes"
  /\ IF ply.ii < ply.index_count
     THEN IF bytes_left(ply) < IndexBytes
          THEN /\ die("Expected index but reached end of file")
               /\ UNCHANGED << m, ply, input_read >>
          ELSE /\ input_read < MaxInput
               /\ input_read' = input_read + 1
               /\ \E index \in IndexReads :
                    /\ ply' = [ply EXCEPT !.index = index, !.rpos = @ + IndexBytes,
                                          !.ii = @ + 1]
                    /\ IF ply_idx_ok(index, ph.vertex_count)
                       THEN /\ m' = [m EXCEPT !.indexes = Append(@, index)]
                            /\ UNCHANGED << pc, exit_status, err >>
                       ELSE die("Invalid index") /\ m' = m
     ELSE /\ ply' = [ply EXCEPT !.i = @ + 1]
          /\ pc' = "faces"
          /\ UNCHANGED << exit_status, err, m, input_read >>
  /\ UNCHANGED << Main, stream, line, line_number, file_str, parser_expects, ph,
                  returned, mismatch, unreadable, fatal_seen, unknown_ext >>

\* bytes left after the last face are only reported
PlyReturn ==
  /\ pc = "return"
  /\ ReturnMesh("load_ply")

\* ---- export_to_alembic ----------------------------------------------------
Sample(mesh) ==
  [positions |-> mesh.vertexes, face_indices |-> mesh.indexes,
   face_counts |-> mesh.faces]

\* the archive, its time sampling and the mesh object are created on out
ExportOpen ==
  /\ pc = "export"
  /\ out_abc' = [out_abc EXCEPT !.archive = TRUE]
  /\ pc' = "export_loop"
  /\ UNCHANGED << argc, i, samples, meshes, exit_status, err, ParserLocals, History >>

\* schema.set(sample) for the next Mesh of meshes
ExportSample ==
  /\ pc = "export_loop"
  /\ Len(samples) < Len(meshes)
  /\ samples' = Append(samples, Sample(meshes[Len(samples) + 1]))
  /\ UNCHANGED << pc, argc, i, out_abc, meshes, exit_status, err, ParserLocals, History >>

\* return 0
MainReturn ==
  /\ pc = "export_loop"
  /\ Len(samples) = Len(meshes)
  /\ exit_status' = 0
  /\ pc' = "exited"
  /\ UNCHANGED << Main, err, ParserLocals, History >>

Next ==
  \/ MainOpenOut \/ MainLoop
  \/ ObjOpen \/ ObjLine \/ ObjReturn
  \/ PlyReadFile \/ PlyFindEnd \/ PlyHeaderLine \/ PlyHeaderLast
  \/ PlyGuard \/ PlyVertexData \/ PlyFace \/ PlyIndex \/ PlyReturn
  \/ ExportOpen \/ ExportSample \/ MainReturn

Spec == Init /\ [][Next]_vars

\* the program is one thread that runs on until it exits
FairSpec == Spec /\ WF_vars(Next)

\* ---- properties -----------------------------------------------------------
PayloadPcs == {"is_mul_safe", "vertex_data", "faces", "indexes", "return"}

\* C1: once a header line has not matched the line its state expects, the
\* process ends with a non-zero status: load_ply never reaches the payload
\* and returns no Mesh for the file.
C1_HeaderMismatchIsFatal ==
  mismatch => /\ pc \notin PayloadPcs
              /\ (pc = "exited" => exit_status # 0)

\* C2: a run ends either with every file consumed and the archive written,
\* or on a fatal condition with no out.abc created.
C2_ArchiveOrNothing ==
  pc = "exited" =>
    \/ /\ exit_status = 0
       /\ i = argc + 1
       /\ out_abc.archive
       /\ Len(samples) = argc
    \/ /\ exit_status # 0
       /\ ~out_abc.created

\* C3: load_obj stores each index of an accepted face line as the parsed
\* value minus one, below the number of vertices accepted before the line,
\* so every entry of indexes is a position in vertexes.
ObjIndexesInRange(mesh) ==
  \A k \in 1..Len(mesh.indexes) :
    0 <= mesh.indexes[k] /\ mesh.indexes[k] < Len(mesh.vertexes)

ObjFaceStored ==
  (pc = "obj_loop" /\ pc' = "obj_loop" /\ m'.faces # m.faces) =>
    LET n == Len(m'.indexes) - Len(m.indexes)
    IN /\ m'.faces = Append(m.faces, n)
       /\ n <= Len(line'.toks)
       /\ \A k \in 1..n :
            LET stored == m'.indexes[Len(m.indexes) + k]
            IN /\ stored = line'.toks[k].v - 1
               /\ 0 <= stored
               /\ stored < Len(m.vertexes)

C3_ObjIndexesValid ==
  /\ [](pc = "obj_loop" => ObjIndexesInRange(m))
  /\ [](\A r \in 1..Len(returned) :
          returned[r].by = "load_obj" => ObjIndexesInRange(returned[r].mesh))
  /\ [][ObjFaceStored]_vars

C3_Witness ==
  /\ pc = "obj_loop"
  /\ line.prefix = "f "
  /\ Len(m.faces) = 1
  /\ Len(m.indexes) \in {Tri, Quad}

\* C4: a face line whose token count is not 3 or 4 leaves the mesh as it was.
C4_BadTokenCountRejected ==
  [][(/\ pc = "obj_loop"
      /\ input_read' = input_read + 1
      /\ line'.prefix = "f "
      /\ Len(line'.toks) \notin {Tri, Quad}) => m' = m]_vars

\* C5: load_ply accepts an index read from the payload exactly when it is
\* below vertex_count and at most INT32_MAX, and dies otherwise.
IndexInClaimedRange == ply.index < ph.vertex_count /\ ply.index <= INT32_MAX

C5_IndexAcceptedIff ==
  /\ (pc = "indexes" /\ ply.ii > 0) => IndexInClaimedRange
  /\ err = "Invalid index" => ~IndexInClaimedRange

\* C6: load_ply dies before using vertex_count * 12 when the product does not
\* fit size_t; when it fits the guard passes and the vertex block size is the
\* exact product.
Fits == vertex_size * ph.vertex_count <= SIZE_MAX

C6_MulGuard ==
  /\ err = "Vertex count too large" => (~Fits /\ ply = NoPly /\ m = EmptyMesh)
  /\ pc \in {"vertex_data", "faces", "indexes", "return"} => Fits
  /\ pc \in {"faces", "indexes", "return"} =>
       ply.vertex_data_size = vertex_size * ph.vertex_count

C6_Witness ==
  /\ err = "Vertex count too large"
  /\ ph.vertex_count = SIZE_MAX \div vertex_size + 1

\* C7: in every Mesh a parser returned, the face counts add up to the number
\* of indexes.
C7_FacesSumToIndexes ==
  /\ \A r \in 1..Len(returned) :
       SumSeq(returned[r].mesh.faces) = Len(returned[r].mesh.indexes)
  /\ \A k \in 1..Len(meshes) : SumSeq(meshes[k].faces) = Len(meshes[k].indexes)

C7_Witness ==
  \E r \in 1..Len(returned) :
    /\ returned[r].mesh.faces # <<>>
    /\ returned[r].mesh.indexes # <<>>

\* C8: meshes holds the Mesh of each file read so far, in argument order,
\* and the samples written are those of the meshes, one each, in that order.
C8_SamplesInFileOrder ==
  /\ Len(meshes) = Len(returned)
  /\ \A k \in 1..Len(returned) :
       returned[k].file = k /\ meshes[k] = returned[k].mesh
  /\ Len(samples) <= Len(meshes)
  /\ \A k \in 1..Len(samples) : samples[k] = Sample(returned[k].mesh)
  /\ pc \in {"export", "export_loop"} => Len(meshes) = argc
  /\ (pc = "exited" /\ exit_status = 0) => Len(samples) = argc

C8_Witness ==
  /\ pc = "exited"
  /\ exit_status = 0
  /\ Len(samples) = 2
  /\ samples[1] # samples[2]
  /\ \A k \in 1..2 : returned[k].by = "load_obj"

\* C9: a file that cannot be opened or read ends the run with a non-zero
\* status, under either parser.
C9_UnreadableIsFatal ==
  unreadable => (pc = "exited" /\ exit_status # 0)

\* C10: the exit status is 0 exactly when every file had a recognised
\* extension and no fatal parse condition occurred; an unrecognised
\* extension ends the run non-zero before export_to_alembic.
FatalCondition ==
  \/ err # ""
  \/ exit_status = SIGABRT
  \/ mismatch \/ unreadable \/ fatal_seen

C10_ExitStatus ==
  /\ pc = "exited" => (exit_status = 0 <=> (~unknown_ext /\ ~FatalCondition))
  /\ unknown_ext => (pc = "exited" /\ exit_status # 0 /\ ~out_abc.archive)

\* C11: a payload shorter than the vertex block, no byte left for a count, or
\* fewer than 4 bytes left for an index each end load_ply in die; the Mesh
\* built, and so the Mesh returned, never holds more than the payload has.
BytesOf(mesh) ==
  vertex_size * Len(mesh.vertexes) + CountBytes * Len(mesh.faces)
    + IndexBytes * Len(mesh.indexes)

C11_TruncationIsFatal ==
  /\ pc \in {"faces", "indexes", "return"} =>
       /\ ply.actual_data_size >= vertex_size * ph.vertex_count
       /\ BytesOf(m) <= ply.actual_data_size
  /\ err = "Expected bytes of vertex data" =>
       ply.actual_data_size < vertex_size * ph.vertex_count
  /\ err = "Expected faces" =>
       (ply.actual_data_size - ply.rpos < CountBytes /\ ply.i < ph.face_count)
  /\ err = "Expected index but reached end of file" =>
       (ply.actual_data_size - ply.rpos < IndexBytes /\ ply.ii < ply.index_count)
  /\ pc = "return" => Len(m.faces) = ph.face_count

C11_Witness ==
  /\ err = "Expected index but reached end of file"
  /\ ply.index_count >= 1
  /\ ply.actual_data_size - ply.rpos < IndexBytes
  /\ Len(m.faces) = 1

\* C12: an input with no vertices and no faces gives an empty Mesh and no
\* fatal exit: a text file of no lines, and a binary file whose header stores
\* the counts 0 and 0.
PayloadErrs ==
  {"Vertex count too large", "Expected bytes of vertex data", "Expected faces",
   "Expected index but reached end of file", "Invalid index"}

ZeroCounts == ph.vertex_count = 0 /\ ph.face_count = 0

EmptyObjIsEmptyMesh ==
  (pc = "obj_loop" /\ line_number = 0) => (m = EmptyMesh /\ exit_status = -1)

ZeroCountPlyIsEmptyMesh ==
  /\ (pc \in PayloadPcs /\ ZeroCounts) => (m = EmptyMesh /\ exit_status = -1)
  /\ err \in PayloadErrs => ~ZeroCounts

\* the claim as stated: a binary file of zero bytes is no error either
C12_EmptyInputIsNoError ==
  /\ EmptyObjIsEmptyMesh
  /\ ZeroCountPlyIsEmptyMesh
  /\ file_str = "zero bytes" => (exit_status \in {-1, 0} /\ err = "")

\* as amended: a binary file of zero bytes has no "end_header\n" and ends the
\* run in die
C12_EmptyInputAmended ==
  /\ EmptyObjIsEmptyMesh
  /\ ZeroCountPlyIsEmptyMesh
  /\ (file_str = "zero bytes" /\ pc # "find_end_of") =>
       (pc = "exited" /\ exit_status = EXIT_FAILURE
          /\ err = "Couldn't find 'end_header\\n'")

C12_Witness ==
  /\ pc = "return"
  /\ parser_expects = "EXPECT_DATA"
  /\ ~mismatch
  /\ ZeroCounts
  /\ m = EmptyMesh

\* C13: a vertex line that is not exactly three float tokens leaves the mesh
\* as it was and the parse goes on.
ExactlyThreeFloats(toks) == Len(toks) = 3 /\ \A k \in 1..3 : toks[k].t = "num"

C13_BadVertexLineRejected ==
  [][(/\ pc = "obj_loop"
      /\ line_number' = line_number + 1
      /\ line'.prefix = "v "
      /\ ~ExactlyThreeFloats(line'.toks)) => (m' = m /\ pc' = "obj_loop")]_vars

\* C14: load_obj never ends the process: whatever the lines, each pass of the
\* loop stays in load_obj without an exit status, and the call ends by
\* returning a Mesh to main.
ObjPcs == {"load_obj", "obj_loop"}

ObjStepStaysOrReturns ==
  pc \in ObjPcs =>
    \/ pc' \in ObjPcs
    \/ /\ pc' = "main_loop"
       /\ Len(returned') = Len(returned) + 1
       /\ returned'[Len(returned')].by = "load_obj"
       /\ returned'[Len(returned')].mesh = m

C14_ObjNeverAborts ==
  /\ [](pc \in ObjPcs => (exit_status = -1 /\ err = ""))
  /\ [][ObjStepStaysOrReturns]_vars
  /\ (pc \in ObjPcs) ~> (pc = "main_loop")

C14_Witness ==
  /\ pc = "obj_loop"
  /\ line.prefix = "f "
  /\ line_number = MaxInput
  /\ m = EmptyMesh
  /\ exit_status = -1
  /\ ENABLED ObjReturn

\* C15: "end_header" that no newline follows does not end the process:
\* the parse of the file goes on.
C15_MalformedTerminatorNotFatal ==
  file_str = "end_header without newline" =>
    /\ pc # "exited"
    /\ exit_status = -1
    /\ err = ""

\* C16: each header line either moves parser_expects forward by exactly one
\* state, or ends the parse for good: after a line that did not match, no
\* line is accepted.
RECURSIVE StateIndex(_, _)
StateIndex(x, k) == IF States[k] = x THEN k ELSE StateIndex(x, k + 1)

C16_StrictLinearMachine ==
  [][pc = "parse_ply_header" =>
       \/ /\ ~mismatch'
          /\ StateIndex(parser_expects', 1) = StateIndex(parser_expects, 1) + 1
       \/ /\ pc' = "exited"
          /\ exit_status' # 0]_vars

\* the part of C16 the code keeps: forward only, one state per line at most
C16_ForwardOnly ==
  [][StateIndex(parser_expects', 1) - StateIndex(parser_expects, 1) \in {0, 1}
       \/ pc' = "main_loop"]_vars

\* C17: a face line of three or four integer tokens with an index outside
\* 1..vertex count leaves the mesh as it was, four tokens included, and the
\* loop goes on to the next line.
IntegerTokens(toks) == \A k \in 1..Len(toks) : toks[k].t = "num"

SomeIndexOutOfRange(toks, vcount) == \E k \in 1..Len(toks) : toks[k].v \notin 1..vcount

C17_BadIndexRejectsFace ==
  [][(/\ pc = "obj_loop"
      /\ line_number' = line_number + 1
      /\ line'.prefix = "f "
      /\ Len(line'.toks) \in {Tri, Quad}
      /\ IntegerTokens(line'.toks)
      /\ SomeIndexOutOfRange(line'.toks, Len(m.vertexes)))
     => (m' = m /\ pc' = "obj_loop" /\ stream' = "good" /\ exit_status' = -1)]_vars

C17_Witness ==
  /\ pc = "obj_loop"
  /\ line = [prefix |-> "f ", toks |-> <<Num(1), Num(1), Num(1), Num(0)>>]
  /\ Len(m.vertexes) = 1
  /\ m.faces = <<>>
  /\ m.indexes = <<>>

\* C18: the read cursor of load_ply stays between data_begin and data_end,
\* the vertex block lies inside the payload once it has been copied, and the
\* cursor is then at or after the end of that block.
C18_CursorInPayload ==
  /\ 0 <= ply.rpos
  /\ ply.rpos <= ply.actual_data_size
  /\ pc \in {"faces", "indexes", "return"} =>
       /\ ply.vertex_data_size = vertex_size * ph.vertex_count
       /\ ply.vertex_data_size <= ply.actual_data_size
       /\ ply.vertex_data_size <= ply.rpos
       /\ ply.rpos = BytesOf(m)

C18_Witness ==
  /\ pc = "return"
  /\ ply.rpos = ply.actual_data_size
  /\ Len(m.faces) = 1
  /\ Len(m.indexes) = 1

\* C19: the Mesh load_ply returns has ph.vertex_count vertices and
\* ph.face_count faces, and each of its indexes is below its number of
\* vertices, whatever number of bytes follows the last face.
IndexesBelowVertexes(mesh) ==
  \A k \in 1..Len(mesh.indexes) : mesh.indexes[k] < Len(mesh.vertexes)

C19_ReturnedPlyMesh ==
  /\ pc = "return" =>
       /\ Len(m.vertexes) = ph.vertex_count
       /\ Len(m.faces) = ph.face_count
       /\ IndexesBelowVertexes(m)
  /\ \A k \in 1..Len(returned) :
       returned[k].by = "load_ply" => IndexesBelowVertexes(returned[k].mesh)

C19_Witness ==
  /\ pc = "return"
  /\ ply.rpos < ply.actual_data_size
  /\ Len(m.vertexes) = 1
  /\ Len(m.faces) = 1
====
